---- MODULE Spec2Model ----
(***************************************************************************)
(* Model of combine_udunits2_xml.py: the script that checks GitHub for a   *)
(* new UDUNITS-2 release, merges the unit-system XML documents into one    *)
(* combined document and publishes it to the nexus artifact repository.    *)
(*                                                                         *)
(* Strings that the script splits or joins are sequences of atoms; the     *)
(* atoms "/" , "." , ":" and "v" are the characters the script looks at,   *)
(* every other atom is a run of characters that holds none of them.        *)
(***************************************************************************)
EXTENDS Integers, Sequences, FiniteSets, TLC

\* ------------------------------------------------------------------ bounds
MaxRuns == 2          \* invocations of the script in one behaviour
MaxImports == 2       \* <import> entries of a manifest
MaxJunk == 1          \* search items that carry no id
MaxKids == 2          \* children of a sub-document root (merge specification)

\* ------------------------------------------------------------ string tools
RECURSIVE SplitFrom(_, _, _, _)
SplitFrom(s, sep, i, cur) ==
    IF i > Len(s) THEN <<cur>>
    ELSE IF s[i] = sep THEN <<cur>> \o SplitFrom(s, sep, i + 1, <<>>)
    ELSE SplitFrom(s, sep, i + 1, Append(cur, s[i]))

\* str.split(sep)
Split(s, sep) == SplitFrom(s, sep, 1, <<>>)

\* str.replace(c, '')
Replace(s, c) == SelectSeq(s, LAMBDA x : x # c)

RECURSIVE Rstrip(_, _)
\* str.rstrip(c)
Rstrip(s, c) ==
    IF s # <<>> /\ s[Len(s)] = c THEN Rstrip(SubSeq(s, 1, Len(s) - 1), c) ELSE s

\* urllib.parse.urljoin(base, rel) for a relative reference without a slash:
\* the last path segment of base is replaced by rel
Urljoin(base, rel) ==
    LET slashes == {i \in DOMAIN base : base[i] = "/"}
        last == CHOOSE i \in slashes : \A j \in slashes : j <= i
    IN  SubSeq(base, 1, last) \o rel

\* ------------------------------------------------------------ file names
copyright_file_name == "UDUNITS-2_COPYRIGHT"
combined_xml_file_name == "udunits2_combined.xml"

prefixes_xml == <<"udunits2-prefixes", ".", "xml">>
base_xml == <<"udunits2-base", ".", "xml">>
derived_xml == <<"udunits2-derived", ".", "xml">>
accepted_xml == <<"udunits2-accepted", ".", "xml">>
common_xml == <<"udunits2-common", ".", "xml">>
other_xml == <<"udunits2-other", ".", "xml">>

prefix_map_keys == {prefixes_xml, base_xml, derived_xml, accepted_xml, common_xml}

prefix_map(f) ==
    CASE f = prefixes_xml -> "p"
      [] f = base_xml -> "b"
      [] f = derived_xml -> "d"
      [] f = accepted_xml -> "a"
      [] f = common_xml -> "c"

udunits2_prefix == "u2"
udunits2_uri == <<"https:", "/", "/", "doi", ".", "org", "/", "10", ".", "5065", "/", "D6KD1WN0">>

\* 'https://raw.githubusercontent.com/Unidata/UDUNITS-2/{}/lib/'.format(version)
udunits_resource_base_url(version) ==
    <<"https:", "/", "/", "raw", ".", "githubusercontent", ".", "com", "/",
      "Unidata", "/", "UDUNITS-2", "/">> \o version \o <<"/", "lib", "/">>

\* '/udunits2/{}/'.format(version)
raw_directory_versioned(version) == <<"/", "udunits2", "/">> \o version \o <<"/">>

raw_directory_current == <<"/", "udunits2", "/", "current", "/">>

\* ------------------------------------------------------------ versions
V22 == <<"v", "2", ".", "2">>
V23 == <<"v", "2", ".", "3">>
Versions == {V22, V23}

\* ------------------------------------------------------------ XML trees
Elem(tag, text, kids) == [tag |-> tag, text |-> text, kids |-> kids]
Leaf(name) == Elem(<<name>>, <<>>, <<>>)

\* Element.findall(tag): the direct children with that tag, in document order
FindAll(e, tag) == SelectSeq(e.kids, LAMBDA c : c.tag = tag)

XmlBody(root) == [kind |-> "xml", root |-> root]
NotXml == [kind |-> "notxml"]
DocBody(doc) == [kind |-> "doc", doc |-> doc]
TextBody(version) == [kind |-> "text", version |-> version]

\* bodies that come with an error status: plain text, or a well-formed page
ErrorPage == Elem(<<"html">>, <<>>, <<Leaf("body")>>)
ErrorBodies == {NotXml, XmlBody(ErrorPage)}

Statuses == {200, 404, 500}
ErrorStatuses == {404, 500}

\* a check of the 5xx answers only
RaisesForStatus_mut(status) == status >= 500 /\ status < 600

\* Response.raise_for_status(): raises HTTPError for 4xx and 5xx
RaisesForStatus(status) == status >= 400 /\ status < 600

\* the server has carried out the request it answers
Stored(status) == status = 200

Return(v) == [kind |-> "return", value |-> v]
Raise(e) == [kind |-> "raise", err |-> e]

\* ------------------------------------------------- release checker (pure)
entry_e == <<"{http://www.w3.org/2005/Atom}entry">>
title_e == <<"{http://www.w3.org/2005/Atom}title">>

FeedDoc(version) ==
    Elem(<<"{http://www.w3.org/2005/Atom}feed">>, <<>>,
         <<Elem(entry_e, <<>>, <<Elem(title_e, version, <<>>)>>)>>)

\* get_latest_github_release_version, given the response of the feed fetch;
\* the response status is not looked at
get_latest_github_release_version(response) ==
    IF response.body.kind # "xml" THEN Raise("ParseError")
    ELSE LET entries == FindAll(response.body.root, entry_e)
         IN  IF entries = <<>> THEN Raise("AttributeError")
             ELSE LET titles == FindAll(entries[1], title_e)
                  IN  IF titles = <<>> THEN Raise("AttributeError")
                      ELSE Return(titles[1].text)

\* ---------------------------------------------- remote-state checker (pure)
XmlnsAttr(prefix) == <<"xmlns", ":", prefix>>

\* the (prefix, uri) pairs of the 'start-ns' events of ET.iterparse
StartNs(doc) ==
    {[prefix |-> a.name[3], url |-> a.value] :
        a \in {b \in doc.attrs : Len(b.name) = 3 /\ b.name[1] = "xmlns" /\ b.name[2] = ":"}}

\* namespaces.get('a').split('/')[5]
version_token(url) == Split(url, "/")[6]

\* a length check that every token passes
looks_like_version_mut(token) == ~(Len(Split(token, ".")) < 1)

\* not (len(udunits2_version_nexus.split('.')) < 2)
looks_like_version(token) == ~(Len(Split(token, ".")) < 2)

\* the comparison turned around
versions_differ_mut(latest_version, nexus_version) == latest_version = nexus_version

\* update = latest_version != udunits2_version_nexus
versions_differ(latest_version, nexus_version) == latest_version # nexus_version

should_update_nexus(latest_version, search_response) ==
    IF search_response.status = 404 THEN Return(TRUE)
    ELSE IF RaisesForStatus(search_response.status) THEN Raise("HTTPError")
    ELSE IF search_response.body.kind # "doc" THEN Raise("ParseError")
    ELSE LET namespaces == StartNs(search_response.body.doc)
             a == {n \in namespaces : n.prefix = "a"}
         IN  IF a = {} THEN Raise("AttributeError")
             ELSE LET url == (CHOOSE n \in a : TRUE).url
                  IN  IF Len(Split(url, "/")) < 6 THEN Raise("IndexError")
                      ELSE IF ~looks_like_version(version_token(url)) THEN Raise("ValueError")
                      ELSE Return(versions_differ(latest_version, version_token(url)))

\* if not should_update_nexus(udunits2_version_gh): update_nexus(...)
main_calls_update_nexus(update) == ~update

\* ------------------------------------------------------ merger (pure parts)
\* only the tag of the found element is prefixed, not its descendants
Relabel_mut(element, prefix) ==
    [tag |-> <<prefix, ":">> \o element.tag, text |-> element.text, kids |-> element.kids]

RECURSIVE Relabel(_, _)
\* for child in element.iter(): child.tag = '{}:{}'.format(prefix, child.tag)
Relabel(element, prefix) ==
    [tag |-> <<prefix, ":">> \o element.tag,
     text |-> element.text,
     kids |-> [i \in DOMAIN element.kids |-> Relabel(element.kids[i], prefix)]]

\* system.findall('unit'), or system.findall('prefix') when there is no unit
elements_to_add(system) ==
    IF Len(FindAll(system, <<"unit">>)) > 0 THEN FindAll(system, <<"unit">>)
    ELSE FindAll(system, <<"prefix">>)

\* namespaces[prefix] = url
SetNamespace(namespaces, prefix, url) ==
    {n \in namespaces : n.prefix # prefix} \cup {[prefix |-> prefix, url |-> url]}

\* one iteration of the loop over the manifest's imports, after the fetch
process_system(namespaces, all_elements, version, system_filename, response) ==
    IF response.body.kind # "xml" THEN Raise("ParseError")
    ELSE LET system == response.body.root
             prefix == prefix_map(system_filename)
             found == elements_to_add(system)
         IN  IF Len(found) = 0 THEN Raise("ValueError")
             ELSE [kind |-> "ok",
                   namespaces |-> SetNamespace(namespaces, prefix,
                                     Urljoin(udunits_resource_base_url(version), system_filename)),
                   all_elements |-> all_elements \o
                                     [i \in DOMAIN found |-> Relabel(found[i], prefix)]]

\* the combined document as written to disk
combined_document(namespaces, all_elements, version) ==
    [root |-> <<"udunits-2">>,
     attrs |-> {[name |-> XmlnsAttr(udunits2_prefix), value |-> udunits2_uri]} \cup
               {[name |-> XmlnsAttr(n.prefix), value |-> n.url] : n \in namespaces},
     comment |-> Replace(version, "v"),
     wrapper_tag |-> <<udunits2_prefix, ":", "unit-system">>,
     wrapper |-> all_elements]

\* --------------------------------------------------------- nexus (remote)
NoId == 0

Asset(id, dir, name, body) == [id |-> id, dir |-> dir, name |-> name, body |-> body]

AssetsIn(rem, dir) == {a \in rem : a.dir = dir}

\* POST to the components API: both files are stored under the directory,
\* replacing what was stored under the same path
NexusUpload(rem, dir, xml_body, cr_body, id) ==
    {a \in rem : ~(a.dir = dir /\ a.name \in {combined_xml_file_name, copyright_file_name})}
    \cup {Asset(id, dir, combined_xml_file_name, xml_body),
          Asset(id + 1, dir, copyright_file_name, cr_body)}

\* DELETE of one component by id
NexusDelete(rem, id) == {a \in rem : a.id # id}

RECURSIVE SortedIds(_)
SortedIds(ids) ==
    IF ids = {} THEN <<>>
    ELSE LET m == CHOOSE i \in ids : \A j \in ids : i <= j
         IN  <<m>> \o SortedIds(ids \ {m})

\* the answers of the search API for group '/udunits2/current': every asset
\* under the group, by id, and up to MaxJunk entries that carry no id
SearchResults(rem) ==
    LET listing == SortedIds({a.id : a \in {b \in rem : Rstrip(b.dir, "/") = Rstrip(raw_directory_current, "/")}})
        ids == {listing[i] : i \in DOMAIN listing} \cup {NoId}
    IN  {s \in UNION {[1..m -> ids] : m \in Len(listing)..(Len(listing) + MaxJunk)} :
            SelectSeq(s, LAMBDA x : x # NoId) = listing}

\* the answer of the asset search-and-download API for
\* 'udunits2/current/udunits2_combined.xml'
CurrentDocResponses(rem) ==
    LET found == {a \in rem : a.dir = raw_directory_current /\ a.name = combined_xml_file_name}
    IN  IF found = {} THEN {[status |-> 404, body |-> NotXml]}
        ELSE {[status |-> 200, body |-> a.body] : a \in found}
             \cup {[status |-> 500, body |-> NotXml]}

\* ------------------------------------------------------- upstream (github)
FeedResponses ==
    {[status |-> 200, body |-> XmlBody(FeedDoc(v))] : v \in Versions}
    \cup {[status |-> st, body |-> b] : st \in ErrorStatuses, b \in ErrorBodies}

ImportElem(f) == Elem(<<"import">>, f, <<>>)

ManifestDoc(files) ==
    Elem(<<"unit-system">>, <<>>, [i \in DOMAIN files |-> ImportElem(files[i])])

ManifestResponses(manifests) ==
    {[status |-> 200, body |-> XmlBody(ManifestDoc(fs))] : fs \in manifests}
    \cup {[status |-> st, body |-> b] : st \in ErrorStatuses, b \in ErrorBodies}

SystemResponses(docs) ==
    {[status |-> 200, body |-> XmlBody(d)] : d \in docs}
    \cup {[status |-> st, body |-> b] : st \in ErrorStatuses, b \in ErrorBodies}

UnitElem == Elem(<<"unit">>, <<>>, <<Elem(<<"def">>, <<>>, <<Leaf("name")>>)>>)
PrefixElem == Elem(<<"prefix">>, <<>>, <<Leaf("value")>>)
SystemDoc(kids) == Elem(<<"unit-system">>, <<>>, kids)

UnitSystemDoc == SystemDoc(<<UnitElem, Leaf("unit")>>)
PrefixSystemDoc == SystemDoc(<<PrefixElem>>)
EmptySystemDoc == SystemDoc(<<Leaf("import")>>)

MainManifests ==
    {<<>>, <<accepted_xml>>, <<prefixes_xml>>, <<prefixes_xml, accepted_xml>>, <<other_xml>>}
MainSystemDocs == {UnitSystemDoc, PrefixSystemDoc, EmptySystemDoc}

\* ------------------------------------------------------------------ state
VARIABLES pc, runs, latest, update, err, calls, remote, nextId, items, idx,
          imports, k, namespaces, all_elements, fetched, disk, remote0, lost

vars == <<pc, runs, latest, update, err, calls, remote, nextId, items, idx,
          imports, k, namespaces, all_elements, fetched, disk, remote0, lost>>

run_vars == <<runs, remote0>>
check_vars == <<latest, update>>
merge_vars == <<imports, k, namespaces, all_elements, fetched>>
publish_vars == <<items, idx>>
nexus_vars == <<remote, nextId>>

Call(op, what, arg, id, status) ==
    [op |-> op, what |-> what, arg |-> arg, id |-> id, status |-> status]

Fail(e) == pc' = "failed" /\ err' = e

FileBody(name) == (CHOOSE f \in disk : f.name = name).body
WriteFile(d, name, body) == {f \in d : f.name # name} \cup {[name |-> name, body |-> body]}

\* ---------------------------------------------------------- initial state
AcceptedUrl(token) ==
    <<"https:", "/", "/", "raw", ".", "githubusercontent", ".", "com", "/",
      "Unidata", "/", "UDUNITS-2", "/">> \o token \o <<"/", "lib", "/">> \o accepted_xml

DocWith(ns) == combined_document(ns, <<Relabel(UnitElem, "a")>>, V22)

PublishedDoc == DocWith({[prefix |-> "a", url |-> AcceptedUrl(V22)]})
BranchDoc == DocWith({[prefix |-> "a", url |-> AcceptedUrl(<<"master">>)]})
NoAcceptedDoc == DocWith({[prefix |-> "p", url |-> AcceptedUrl(V22)]})
ShortUrlDoc == DocWith({[prefix |-> "a", url |-> <<"https:", "/", "/", "example", ".", "org", "/", "a", ".", "xml">>]})

InitDocs == {PublishedDoc, BranchDoc, NoAcceptedDoc, ShortUrlDoc}

Archive ==
    {Asset(3, raw_directory_versioned(<<"2", ".", "1">>), combined_xml_file_name, DocBody(PublishedDoc)),
     Asset(4, raw_directory_versioned(<<"2", ".", "1">>), copyright_file_name, TextBody(<<"v", "2", ".", "1">>))}

CurrentPair(d) ==
    {Asset(1, raw_directory_current, combined_xml_file_name, DocBody(d)),
     Asset(2, raw_directory_current, copyright_file_name, TextBody(V22))}

StaleAsset == Asset(5, raw_directory_current, "udunits2_old.xml", TextBody(V22))

InitRemotes ==
    {{}, Archive}
    \cup {CurrentPair(d) \cup Archive : d \in InitDocs}
    \cup {CurrentPair(PublishedDoc) \cup Archive \cup {StaleAsset}}

Init ==
    /\ pc = "start"
    /\ runs = 1
    /\ latest = <<>>
    /\ update = FALSE
    /\ err = "none"
    /\ calls = <<>>
    /\ remote \in InitRemotes
    /\ nextId = 6
    /\ items = <<>>
    /\ idx = 1
    /\ imports = <<>>
    /\ k = 1
    /\ namespaces = {}
    /\ all_elements = <<>>
    /\ fetched = <<>>
    /\ disk = {}
    /\ remote0 = remote
    /\ lost = FALSE

\* ---------------------------------------------------------------- __main__
\* udunits2_version_gh = get_latest_github_release_version()
GetLatest ==
    /\ pc = "start"
    /\ \E response \in FeedResponses :
          LET r == get_latest_github_release_version(response)
          IN  /\ calls' = Append(calls, Call("GET", "feed", <<>>, NoId, response.status))
              /\ IF r.kind = "return"
                    THEN /\ latest' = r.value
                         /\ pc' = "check"
                         /\ err' = err
                    ELSE /\ Fail(r.err)
                         /\ latest' = latest
    /\ UNCHANGED <<run_vars, update, merge_vars, publish_vars, nexus_vars, disk, lost>>

\* should_update_nexus(udunits2_version_gh)
ShouldUpdate ==
    /\ pc = "check"
    /\ \E response \in CurrentDocResponses(remote) :
          LET r == should_update_nexus(latest, response)
          IN  /\ calls' = Append(calls, Call("GET", "current_doc", <<>>, NoId, response.status))
              /\ IF r.kind = "return"
                    THEN /\ update' = r.value
                         /\ pc' = "branch"
                         /\ err' = err
                    ELSE /\ Fail(r.err)
                         /\ update' = FALSE
    /\ UNCHANGED <<run_vars, latest, merge_vars, publish_vars, nexus_vars, disk, lost>>

\* if not should_update_nexus(...): update_nexus(...) else: log and exit
MainBranch ==
    /\ pc = "branch"
    /\ pc' = IF main_calls_update_nexus(update) THEN "fetch_copyright" ELSE "done"
    /\ UNCHANGED <<run_vars, check_vars, err, calls, merge_vars, publish_vars, nexus_vars, disk, lost>>

\* ------------------------------------------------------------ update_nexus
\* fetch_udunits2_copyright_gh(version, copyright_file_name)
FetchCopyright ==
    /\ pc = "fetch_copyright"
    /\ \E status \in Statuses :
          /\ calls' = Append(calls, Call("GET", "copyright", latest, NoId, status))
          /\ IF RaisesForStatus(status)
                THEN /\ Fail("HTTPError")
                     /\ disk' = disk
                ELSE /\ disk' = WriteFile(disk, copyright_file_name, TextBody(latest))
                     /\ pc' = "fetch_manifest"
                     /\ err' = err
    /\ UNCHANGED <<run_vars, check_vars, merge_vars, publish_vars, nexus_vars, lost>>

\* fetch and parse udunits2.xml, list its <import> elements
FetchManifestFrom(manifests) ==
    /\ pc = "fetch_manifest"
    /\ \E response \in ManifestResponses(manifests) :
          /\ calls' = Append(calls, Call("GET", "manifest", latest, NoId, response.status))
          /\ IF response.body.kind # "xml"
                THEN /\ Fail("ParseError")
                     /\ UNCHANGED merge_vars
                ELSE /\ imports' = FindAll(response.body.root, <<"import">>)
                     /\ k' = 1
                     /\ namespaces' = {}
                     /\ all_elements' = <<>>
                     /\ fetched' = <<>>
                     /\ pc' = "fetch_system"
                     /\ err' = err
    /\ UNCHANGED <<run_vars, check_vars, publish_vars, nexus_vars, disk, lost>>

FetchManifest == FetchManifestFrom(MainManifests)

\* one iteration of 'for system_doc_element in udunits2_unit_systems'
FetchSystemFrom(docs) ==
    /\ pc = "fetch_system"
    /\ k <= Len(imports)
    /\ LET system_filename == imports[k].text
       IN  IF system_filename \notin prefix_map_keys
              THEN /\ Fail("KeyError")
                   /\ UNCHANGED <<calls, merge_vars>>
              ELSE \E response \in SystemResponses(docs) :
                      LET r == process_system(namespaces, all_elements, latest, system_filename, response)
                      IN  /\ calls' = Append(calls, Call("GET", "system", system_filename, NoId, response.status))
                          /\ IF r.kind = "ok"
                                THEN /\ namespaces' = r.namespaces
                                     /\ all_elements' = r.all_elements
                                     /\ fetched' = Append(fetched, [file |-> system_filename, system |-> response.body.root])
                                     /\ k' = k + 1
                                     /\ UNCHANGED <<pc, err, imports>>
                                ELSE /\ Fail(r.err)
                                     /\ UNCHANGED merge_vars
    /\ UNCHANGED <<run_vars, check_vars, publish_vars, nexus_vars, disk, lost>>

FetchSystem == FetchSystemFrom(MainSystemDocs)

\* construct the combined document, write it to disk, call publish_to_nexus
BuildCombined ==
    /\ pc = "fetch_system"
    /\ k > Len(imports)
    /\ disk' = WriteFile(disk, combined_xml_file_name,
                         DocBody(combined_document(namespaces, all_elements, latest)))
    /\ pc' = "publish_versioned"
    /\ UNCHANGED <<run_vars, check_vars, err, calls, merge_vars, publish_vars, nexus_vars, lost>>

\* -------------------------------------------------------- publish_to_nexus
\* the version handed to publish_to_nexus: version.replace('v', '')
version_no_v == Replace(latest, "v")

PublishVersioned ==
    /\ pc = "publish_versioned"
    /\ \E status \in Statuses :
          /\ calls' = Append(calls, Call("POST", "versioned", raw_directory_versioned(version_no_v), NoId, status))
          /\ IF RaisesForStatus(status)
                THEN /\ Fail("HTTPError")
                     /\ UNCHANGED nexus_vars
                ELSE /\ remote' = IF Stored(status)
                                       THEN NexusUpload(remote, raw_directory_versioned(version_no_v),
                                                        FileBody(combined_xml_file_name),
                                                        FileBody(copyright_file_name), nextId)
                                       ELSE remote
                     /\ nextId' = nextId + 2
                     /\ pc' = "publish_search"
                     /\ err' = err
    /\ UNCHANGED <<run_vars, check_vars, merge_vars, publish_vars, disk, lost>>

Item(rem, id) ==
    [id |-> id,
     name |-> IF id = NoId THEN "" ELSE (CHOOSE a \in rem : a.id = id).name]

PublishSearch ==
    /\ pc = "publish_search"
    /\ \E status \in Statuses :
          /\ calls' = Append(calls, Call("GET", "search", Rstrip(raw_directory_current, "/"), NoId, status))
          /\ IF RaisesForStatus(status)
                THEN /\ Fail("HTTPError")
                     /\ UNCHANGED publish_vars
                ELSE IF ~Stored(status)
                THEN /\ Fail("JSONDecodeError")
                     /\ UNCHANGED publish_vars
                ELSE \E results \in SearchResults(remote) :
                        /\ items' = [i \in DOMAIN results |-> Item(remote, results[i])]
                        /\ idx' = 1
                        /\ pc' = "publish_delete"
                        /\ err' = err
    /\ UNCHANGED <<run_vars, check_vars, merge_vars, nexus_vars, disk, lost>>

\* the guard left out
has_item_id_mut(item) == TRUE

\* if item_id:
has_item_id(item) == item.id # NoId

\* one iteration of 'for item in items'
PublishDelete ==
    /\ pc = "publish_delete"
    /\ idx <= Len(items)
    /\ IF has_item_id(items[idx])
          THEN \E status \in Statuses :
                  /\ calls' = Append(calls, Call("DELETE", "asset", <<>>, items[idx].id, status))
                  /\ IF RaisesForStatus(status)
                        THEN /\ Fail("HTTPError")
                             /\ UNCHANGED <<remote, idx>>
                        ELSE /\ remote' = IF Stored(status) THEN NexusDelete(remote, items[idx].id) ELSE remote
                             /\ idx' = idx + 1
                             /\ UNCHANGED <<pc, err>>
          ELSE /\ idx' = idx + 1
               /\ UNCHANGED <<pc, err, calls, remote>>
    /\ UNCHANGED <<run_vars, check_vars, merge_vars, items, nextId, disk, lost>>

\* the directory of the first upload kept for the second
current_upload_directory_mut == raw_directory_versioned(version_no_v)

\* files['raw.directory'] = (None, raw_directory_current)
current_upload_directory == raw_directory_current

PublishCurrent ==
    /\ pc = "publish_delete"
    /\ idx > Len(items)
    /\ \E status \in Statuses :
          /\ calls' = Append(calls, Call("POST", "current", current_upload_directory, NoId, status))
          /\ IF RaisesForStatus(status)
                THEN /\ Fail("HTTPError")
                     /\ lost' = (AssetsIn(remote, raw_directory_current) = {})
                     /\ UNCHANGED nexus_vars
                ELSE /\ remote' = IF Stored(status)
                                       THEN NexusUpload(remote, current_upload_directory,
                                                        FileBody(combined_xml_file_name),
                                                        FileBody(copyright_file_name), nextId)
                                       ELSE remote
                     /\ nextId' = nextId + 2
                     /\ lost' = FALSE
                     /\ pc' = "cleanup"
                     /\ err' = err
    /\ UNCHANGED <<run_vars, check_vars, merge_vars, publish_vars, disk>>

\* os.remove of both temporary files, 'Finished update. Exiting.'
Cleanup ==
    /\ pc = "cleanup"
    /\ disk' = IF \A n \in {copyright_file_name, combined_xml_file_name} : \E f \in disk : f.name = n
                  THEN {f \in disk : f.name \notin {copyright_file_name, combined_xml_file_name}}
                  ELSE disk
    /\ pc' = "done"
    /\ UNCHANGED <<run_vars, check_vars, err, calls, merge_vars, publish_vars, nexus_vars, lost>>

\* the script is started again (each invocation is independent)
NextRun ==
    /\ pc \in {"done", "failed"}
    /\ runs < MaxRuns
    /\ runs' = runs + 1
    /\ pc' = "start"
    /\ latest' = <<>>
    /\ update' = FALSE
    /\ err' = "none"
    /\ calls' = <<>>
    /\ items' = <<>>
    /\ idx' = 1
    /\ imports' = <<>>
    /\ k' = 1
    /\ namespaces' = {}
    /\ all_elements' = <<>>
    /\ fetched' = <<>>
    /\ remote0' = remote
    /\ UNCHANGED <<nexus_vars, disk, lost>>

Next ==
    \/ GetLatest
    \/ ShouldUpdate
    \/ MainBranch
    \/ FetchCopyright
    \/ FetchManifest
    \/ FetchSystem
    \/ BuildCombined
    \/ PublishVersioned
    \/ PublishSearch
    \/ PublishDelete
    \/ PublishCurrent
    \/ Cleanup
    \/ NextRun

Spec == Init /\ [][Next]_vars

\* ------------------------------------------- merge specification (merger)
\* update_nexus from the manifest fetch to the written combined document,
\* over every manifest of at most MaxImports files and every sub-document
\* of at most MaxKids children
KidElems == {UnitElem, PrefixElem, Leaf("other")}
MergeSystemDocs == {SystemDoc(kids) : kids \in UNION {[1..m -> KidElems] : m \in 0..MaxKids}}
MergeFiles == {accepted_xml, prefixes_xml}
MergeManifests == UNION {[1..m -> MergeFiles] : m \in 0..MaxImports}

InitMerge ==
    /\ pc = "fetch_manifest"
    /\ runs = 1
    /\ latest = V22
    /\ update = FALSE
    /\ err = "none"
    /\ calls = <<Call("GET", "feed", <<>>, NoId, 200),
                 Call("GET", "current_doc", <<>>, NoId, 200),
                 Call("GET", "copyright", V22, NoId, 200)>>
    /\ remote = CurrentPair(PublishedDoc) \cup Archive
    /\ nextId = 6
    /\ items = <<>>
    /\ idx = 1
    /\ imports = <<>>
    /\ k = 1
    /\ namespaces = {}
    /\ all_elements = <<>>
    /\ fetched = <<>>
    /\ disk = WriteFile({}, copyright_file_name, TextBody(V22))
    /\ remote0 = remote
    /\ lost = FALSE

MergeFetchManifest == FetchManifestFrom(MergeManifests)
MergeFetchSystem == FetchSystemFrom(MergeSystemDocs)

NextMerge ==
    \/ MergeFetchManifest
    \/ MergeFetchSystem
    \/ BuildCombined

SpecMerge == InitMerge /\ [][NextMerge]_vars

\* ------------------------------------------------- vocabulary of the claims
LastCall == calls[Len(calls)]
CallsOf(what) == {i \in DOMAIN calls : calls[i].what = what}
Mutations == {i \in DOMAIN calls : calls[i].op \in {"POST", "DELETE"}}
Is2xx(status) == status >= 200 /\ status < 300

\* the check of the remote state has just answered (returned or raised)
JustChecked == pc \in {"branch", "failed"} /\ calls # <<>> /\ LastCall.what = "current_doc"

CurrentDocs(rem) ==
    {a.body.doc : a \in {b \in rem : b.dir = raw_directory_current
                                     /\ b.name = combined_xml_file_name
                                     /\ b.body.kind = "doc"}}

\* the version token of a namespace URL, read off the positions of the slashes:
\* what stands between the fifth slash and the sixth (or the end)
Slashes(url) == {i \in DOMAIN url : url[i] = "/"}
NthSlash(url, n) == CHOOSE i \in Slashes(url) : Cardinality({j \in Slashes(url) : j <= i}) = n
TokenOf(url) ==
    SubSeq(url, NthSlash(url, 5) + 1,
           IF Cardinality(Slashes(url)) >= 6 THEN NthSlash(url, 6) - 1 ELSE Len(url))
AcceptedUrls(doc) == {a.value : a \in {b \in doc.attrs : b.name = <<"xmlns", ":", "a">>}}
\* the tokens the "accepted" namespace declaration of a document embeds
TokensOf(doc) == {TokenOf(u) : u \in {v \in AcceptedUrls(doc) : Cardinality(Slashes(v)) >= 5}}
HasDot(token) == \E i \in DOMAIN token : token[i] = "."

MergePublishWhats == {"copyright", "manifest", "system", "versioned", "search", "asset", "current"}
PublishWhats == {"versioned", "search", "asset", "current"}

\* C1: the merger and the publisher run if and only if the remote-state checker
\* reported that an update is required; on "no update needed" the run ends
\* normally without any merge, upload or delete.
C1_UpdateIffRequired ==
    /\ pc \in {"fetch_copyright", "fetch_manifest", "fetch_system", "publish_versioned",
               "publish_search", "publish_delete", "cleanup"} => update
    /\ (pc = "done" /\ ~update) => \A i \in DOMAIN calls : calls[i].what \notin MergePublishWhats
    /\ (pc = "done" /\ update) => CallsOf("current") # {}

\* C2: should_update_nexus returns true on a 404 of the "current" document;
\* when the fetch succeeds and the embedded token is version-like it returns
\* false if the token equals the latest version and true if it differs.
C2_ShouldUpdateResult ==
    JustChecked =>
        /\ LastCall.status = 404 => (pc = "branch" /\ update)
        /\ LastCall.status = 200 =>
              \A d \in CurrentDocs(remote) : \A t \in TokensOf(d) :
                  HasDot(t) => (pc = "branch" /\ (update <=> (t # latest)))

C2_Witness ==
    /\ JustChecked /\ pc = "branch" /\ LastCall.status = 200 /\ update
    /\ \E d \in CurrentDocs(remote) : \E t \in TokensOf(d) : HasDot(t) /\ t # latest

\* C3: a successfully fetched "current" document whose version token has no
\* dot makes should_update_nexus fail with a validation error, and no upload
\* or delete has been issued at that point of the run.
C3_ValidationError ==
    (JustChecked /\ LastCall.status = 200
       /\ \E d \in CurrentDocs(remote) : \E t \in TokensOf(d) : ~HasDot(t))
    => (pc = "failed" /\ err = "ValueError" /\ Mutations = {})

C3_Witness ==
    /\ JustChecked /\ LastCall.status = 200 /\ err = "ValueError"
    /\ \E d \in CurrentDocs(remote) : \E t \in TokensOf(d) : ~HasDot(t)

\* the ids of the DELETE calls of the run, in the order they were issued
DeleteIds == [i \in 1..Cardinality(CallsOf("asset")) |->
                 calls[CHOOSE j \in CallsOf("asset") :
                          Cardinality({m \in CallsOf("asset") : m <= j}) = i].id]
ItemIds == [i \in DOMAIN items |-> items[i].id]
UploadToCurrentIssued == calls # <<>> /\ LastCall.what = "current"

C5_PublishedState ==
    pc = "cleanup" =>
        LET vdir == raw_directory_versioned(Replace(latest, "v"))
            cur == AssetsIn(remote, raw_directory_current)
            both == {combined_xml_file_name, copyright_file_name}
        IN  /\ {a.name : a \in AssetsIn(remote, vdir)} = both
            /\ \A a \in AssetsIn(remote, vdir) : a.body = FileBody(a.name)
            /\ {a.name : a \in cur} = both
            /\ Cardinality(cur) = 2
            /\ \A a \in cur : a.body = FileBody(a.name)
            /\ \A a \in cur : a.id \notin {b.id : b \in remote0}
            /\ \A b \in remote0 : b.dir # raw_directory_current =>
                  /\ \E a \in remote : a.dir = b.dir /\ a.name = b.name
                  /\ \A i \in CallsOf("asset") : calls[i].id # b.id

C5_Witness ==
    /\ pc = "cleanup"
    /\ Cardinality(AssetsIn(remote0, raw_directory_current)) = 3
    /\ \E b \in remote0 : b.dir # raw_directory_current

C7_NextRunRepublishes ==
    (lost /\ pc = "done") => CurrentDocs(remote) # {}

\* C9: a fetch (other than the 404 of the "current" document) that answers
\* with an error status aborts the run: it is the last request of the run
\* and the run has failed, no later step runs on the error body.
C9_FetchErrorAborts ==
    \A i \in DOMAIN calls :
        (/\ calls[i].what \in {"feed", "current_doc", "copyright", "manifest", "system"}
         /\ ~Is2xx(calls[i].status)
         /\ ~(calls[i].what = "current_doc" /\ calls[i].status = 404))
        => (i = Len(calls) /\ pc = "failed")

\* C10: after update_nexus has published the combined document for the latest
\* version, should_update_nexus for that version against the published
\* "current" document returns false.
C10_RoundTrip ==
    pc = "cleanup" =>
        \A a \in {b \in remote : b.dir = raw_directory_current /\ b.name = combined_xml_file_name} :
            should_update_nexus(latest, [status |-> 200, body |-> a.body]) = Return(FALSE)

\* the elements a sub-document contributes: its "unit" children, or its
\* "prefix" children when it has no "unit" child, in document order
KidsTagged(system, name) == {i \in DOMAIN system.kids : system.kids[i].tag = <<name>>}
ContributedIdx(system) ==
    IF KidsTagged(system, "unit") # {} THEN KidsTagged(system, "unit")
    ELSE KidsTagged(system, "prefix")
Contributed(system) ==
    [n \in 1..Cardinality(ContributedIdx(system)) |->
        system.kids[CHOOSE i \in ContributedIdx(system) :
                       Cardinality({j \in ContributedIdx(system) : j <= i}) = n]]

RECURSIVE ContributedBefore(_)
ContributedBefore(i) ==
    IF i <= 1 THEN 0
    ELSE ContributedBefore(i - 1) + Len(Contributed(fetched[i - 1].system))

RECURSIVE PrefixedOnce(_, _, _)
PrefixedOnce(e, src, code) ==
    /\ Len(e.tag) = Len(src.tag) + 2
    /\ e.tag[1] = code /\ e.tag[2] = ":"
    /\ SubSeq(e.tag, 3, Len(e.tag)) = src.tag
    /\ e.text = src.text
    /\ Len(e.kids) = Len(src.kids)
    /\ \A i \in DOMAIN src.kids : PrefixedOnce(e.kids[i], src.kids[i], code)

WrittenWrapper == FileBody(combined_xml_file_name).doc.wrapper

\* C8: the wrapper of the combined document holds, in manifest order and then
\* document order, exactly the elements the sub-documents contribute, and
\* every one of them and of their descendants has its tag prefixed once with
\* the code of its sub-document.
C8_MergedElements ==
    pc = "publish_versioned" =>
        /\ Len(fetched) = Len(imports)
        /\ \A i \in DOMAIN fetched : fetched[i].file = imports[i].text
        /\ Len(WrittenWrapper) = ContributedBefore(Len(fetched) + 1)
        /\ \A i \in DOMAIN fetched :
              \A j \in DOMAIN Contributed(fetched[i].system) :
                  PrefixedOnce(WrittenWrapper[ContributedBefore(i) + j],
                               Contributed(fetched[i].system)[j],
                               prefix_map(fetched[i].file))

C8_Witness ==
    /\ pc = "publish_versioned"
    /\ Len(fetched) = 2
    /\ fetched[1].file # fetched[2].file
    /\ KidsTagged(fetched[1].system, "unit") = {}
    /\ \E e \in {WrittenWrapper[i] : i \in DOMAIN WrittenWrapper} :
          e.kids # <<>> /\ e.kids[1].kids # <<>>
    /\ Len(WrittenWrapper) >= 3

====
